---------------------------- MODULE Spec2Model ----------------------------
(***************************************************************************)
(* A model of polaris_api_client.py: the token exchange, the list / create *)
(* / metadata operations and the entry routine main.                       *)
(*                                                                         *)
(* Every operation is one HTTP round trip.  An invocation goes through the *)
(* steps  Call -> Send -> (Respond | TransportFail) -> Finish ; Finish     *)
(* applies the operation's own code to the response (status test, JSON     *)
(* decoding, traversal, prints) and hands the outcome to the caller.       *)
(*                                                                         *)
(* Two specifications share the operations:                                *)
(*   Spec     a run of main();                                             *)
(*   SpecOps  one invocation of any operation, with any token and any      *)
(*            response, from an importing caller.                          *)
(***************************************************************************)
EXTENDS Integers, Sequences, FiniteSets, TLC

VARIABLES
    pc,        \* the caller's position: a statement of main, or "harness"
    frame,     \* the operation invocation in progress (Idle when none)
    inflight,  \* HTTP requests sent and not yet answered
    response,  \* what requests.get/post gave the invocation in progress
    sent,      \* every HTTP request issued so far, in order
    calls,     \* every operation invoked so far, in order
    token,     \* main's local variable token
    exc,       \* the exception travelling from an operation to main's handler
    last,      \* the outcome of the most recently finished invocation
    out        \* the lines printed so far

vars == <<pc, frame, inflight, response, sent, calls, token, exc, last, out>>

---------------------------------------------------------------------------
(* Bounds of the model.                                                    *)

MaxSchemas == 2
MaxSnapshots == 2

---------------------------------------------------------------------------
(* Python values.                                                          *)

PyNone == [py |-> "None"]
PyStr(s) == [py |-> "str", s |-> s]
PyInt(n) == [py |-> "int", n |-> n]
PyList(sq) == [py |-> "list", elems |-> sq]
PyDict(f) == [py |-> "dict", items |-> f]
Unbound == [py |-> "unbound"]

\* A dict literal: the function with the given <<key, value>> pairs.
Obj(pairs) ==
    PyDict([k \in {p[1] : p \in pairs} |-> (CHOOSE p \in pairs : p[1] = k)[2]])

EmptyDict == Obj({})

\* str(v) as an f-string renders it, for the values a token can take.
Format(v) ==
    CASE v.py = "str" -> v.s
      [] v.py = "None" -> "None"
      [] OTHER -> "?"

\* Sequences over S of length at most n.
SeqUpTo(S, n) == UNION {[1..k -> S] : k \in 0..n}

---------------------------------------------------------------------------
(* Configuration (module level).                                           *)

POLARIS_HOST == "localhost:8183"
CLIENT_ID == "admin"
CLIENT_SECRET == "admin"

\* The names main works with.
catalog_name == "polaris4"
namespace_name == "polaris4_namespace"
table_name == "customers"

---------------------------------------------------------------------------
(* HTTP responses.                                                         *)

\* A body is raw text; it either decodes as JSON to a Python value or not.
JsonBody(doc) == [raw |-> "json", doc |-> doc]
TextBody == [raw |-> "text"]

Statuses == {200, 201, 204, 302, 404, 500}

Received(status, body) == [kind |-> "response", status |-> status, body |-> body]
ConnectionFailed == [kind |-> "failure"]
NoResponse == [kind |-> "none"]

\* response.json(): the decoded value, or a JSONDecodeError.
JsonOk(body) == body.raw = "json"
Json(body) == body.doc

\* Response.raise_for_status(): HTTPError for a 4xx or 5xx status only.
RaisesForStatus(status) == 400 <= status /\ status < 600

\* v[key] on a Python value: the fault it raises, "none" when it succeeds.
SubscriptFault(v, key) ==
    IF v.py = "dict"
    THEN IF key \in DOMAIN v.items THEN "none" ELSE "KeyError"
    ELSE "TypeError"

Faults == {"ConnectionError", "HTTPError", "JSONDecodeError", "KeyError", "TypeError"}

---------------------------------------------------------------------------
(* Outcomes of an operation: a return value or a raised exception, and the *)
(* lines it printed after the response arrived.                            *)

Line(kind, args) == [kind |-> kind, args |-> args]

Returns(v, printed) ==
    [outcome |-> "return", value |-> v, fault |-> "none", printed |-> printed]

Raises(f, printed) ==
    [outcome |-> "raise", value |-> Unbound, fault |-> f, printed |-> printed]


---------------------------------------------------------------------------
(* get_token, from the point where requests.post has come back.            *)

\* get_token without response.raise_for_status().
get_token_unchecked(resp) ==
    IF resp.kind = "failure" THEN Raises("ConnectionError", <<>>)
    ELSE IF ~JsonOk(resp.body) THEN Raises("JSONDecodeError", <<>>)
    ELSE IF SubscriptFault(Json(resp.body), "access_token") # "none"
    THEN Raises(SubscriptFault(Json(resp.body), "access_token"), <<>>)
    ELSE Returns(Json(resp.body).items["access_token"],
                 <<Line("Token", <<Json(resp.body).items["access_token"]>>)>>)

\* get_token returning the header value instead of the bare field.
get_token_prefixed(resp) ==
    IF resp.kind = "failure" THEN Raises("ConnectionError", <<>>)
    ELSE IF RaisesForStatus(resp.status) THEN Raises("HTTPError", <<>>)
    ELSE IF ~JsonOk(resp.body) THEN Raises("JSONDecodeError", <<>>)
    ELSE IF SubscriptFault(Json(resp.body), "access_token") # "none"
    THEN Raises(SubscriptFault(Json(resp.body), "access_token"), <<>>)
    ELSE Returns(PyStr("Bearer " \o Format(Json(resp.body).items["access_token"])),
                 <<Line("Token", <<Json(resp.body).items["access_token"]>>)>>)

get_token(resp) ==
    IF resp.kind = "failure" THEN Raises("ConnectionError", <<>>)
    ELSE IF RaisesForStatus(resp.status) THEN Raises("HTTPError", <<>>)
    ELSE IF ~JsonOk(resp.body) THEN Raises("JSONDecodeError", <<>>)
    ELSE LET body == Json(resp.body)
             fault == SubscriptFault(body, "access_token")
         IN  IF fault # "none" THEN Raises(fault, <<>>)
             ELSE Returns(body.items["access_token"],
                          <<Line("Token", <<body.items["access_token"]>>)>>)

---------------------------------------------------------------------------
(* The list and create operations, from the point where requests.get/post  *)
(* has come back: print status and text, decode the body on a success      *)
(* status, return None otherwise.                                          *)

StatusLines(resp) ==
    <<Line("Status", <<PyInt(resp.status)>>), Line("Response", <<resp.body>>)>>

\* The shared shape of lines 49-56, 65-72, 81-88, 107-114, 129-136, 152-159.
DecodeIfStatusIn(resp, success, label) ==
    IF resp.kind = "failure" THEN Raises("ConnectionError", <<>>)
    ELSE IF resp.status \in success
    THEN IF JsonOk(resp.body)
         THEN Returns(Json(resp.body),
                      Append(StatusLines(resp), Line(label, <<Json(resp.body)>>)))
         ELSE Raises("JSONDecodeError", StatusLines(resp))
    ELSE Returns(PyNone, StatusLines(resp))

\* list_namespaces accepting every 2xx status.
list_namespaces_any_2xx(resp) == DecodeIfStatusIn(resp, {200, 201, 204}, "Parsed JSON")

\* create_table accepting status 200 only.
create_table_200_only(resp) == DecodeIfStatusIn(resp, {200}, "Created table successfully")

\* list_catalogs calling raise_for_status() as get_token does.
list_catalogs_strict(resp) ==
    IF resp.kind = "response" /\ RaisesForStatus(resp.status)
    THEN Raises("HTTPError", <<>>)
    ELSE DecodeIfStatusIn(resp, {200}, "Parsed JSON")

list_catalogs(resp) == DecodeIfStatusIn(resp, {200}, "Parsed JSON")

list_namespaces(resp) == DecodeIfStatusIn(resp, {200}, "Parsed JSON")

list_tables(resp) == DecodeIfStatusIn(resp, {200}, "Parsed JSON")

create_catalog(resp) == DecodeIfStatusIn(resp, {200, 201}, "Created catalog successfully")

create_namespace(resp) == DecodeIfStatusIn(resp, {200, 201}, "Created namespace successfully")

create_table(resp) == DecodeIfStatusIn(resp, {200, 201}, "Created table successfully")

---------------------------------------------------------------------------
(* get_table_metadata: the traversal of the decoded body.  acc carries the *)
(* lines printed so far and the fault that stopped the traversal, if any.  *)

Emit(acc, line) ==
    IF acc.fault = "none" THEN [acc EXCEPT !.printed = Append(@, line)] ELSE acc

Fail(acc, fault) ==
    IF acc.fault = "none" THEN [acc EXCEPT !.fault = fault] ELSE acc

\* dict.get(key, default)
Get(d, key, default) == IF key \in DOMAIN d.items THEN d.items[key] ELSE default

\* Lines 178-179: one line per field, name and type.
RECURSIVE PrintFields(_, _, _)
PrintFields(fields, j, acc) ==
    IF j > Len(fields) \/ acc.fault # "none" THEN acc
    ELSE LET field == fields[j]
         IN  IF SubscriptFault(field, "name") # "none"
             THEN Fail(acc, SubscriptFault(field, "name"))
             ELSE IF SubscriptFault(field, "type") # "none"
             THEN Fail(acc, SubscriptFault(field, "type"))
             ELSE PrintFields(fields, j + 1,
                      Emit(acc, Line("field", <<field.items["name"], field.items["type"]>>)))

\* Lines 176-179: one header per schema (index and id), then its fields.
RECURSIVE PrintSchemas(_, _, _)
PrintSchemas(schemas, i, acc) ==
    IF i > Len(schemas) \/ acc.fault # "none" THEN acc
    ELSE LET schema == schemas[i]
         IN  IF SubscriptFault(schema, "schema-id") # "none"
             THEN Fail(acc, SubscriptFault(schema, "schema-id"))
             ELSE LET headed == Emit(acc, Line("Schema",
                                     <<PyInt(i - 1), schema.items["schema-id"]>>))
                  IN  IF SubscriptFault(schema, "fields") # "none"
                      THEN Fail(headed, SubscriptFault(schema, "fields"))
                      ELSE PrintSchemas(schemas, i + 1,
                               PrintFields(schema.items["fields"].elems, 1, headed))

\* Lines 188-193 for one snapshot.
PrintSnapshot(snapshot, current_snapshot_id, acc) ==
    IF SubscriptFault(snapshot, "snapshot-id") # "none"
    THEN Fail(acc, SubscriptFault(snapshot, "snapshot-id"))
    ELSE LET a1 == Emit(acc, Line("Snapshot ID", <<snapshot.items["snapshot-id"]>>))
         IN  IF SubscriptFault(snapshot, "timestamp-ms") # "none"
             THEN Fail(a1, SubscriptFault(snapshot, "timestamp-ms"))
             ELSE LET a2 == Emit(a1, Line("Timestamp", <<snapshot.items["timestamp-ms"]>>))
                      a3 == Emit(a2, Line("Operation",
                                          <<Get(snapshot, "operation", PyStr("N/A"))>>))
                      a4 == Emit(a3, Line("Summary",
                                          <<Get(snapshot, "summary", EmptyDict)>>))
                  IN  IF snapshot.items["snapshot-id"] = current_snapshot_id
                      THEN Emit(a4, Line("CURRENT SNAPSHOT", <<>>))
                      ELSE a4

RECURSIVE PrintSnapshots(_, _, _, _)

\* The loop stopping one snapshot early.
PrintSnapshots_one_short(snapshots, current_snapshot_id, k, acc) ==
    IF k >= Len(snapshots) \/ acc.fault # "none" THEN acc
    ELSE PrintSnapshots(snapshots, current_snapshot_id, k + 1,
             PrintSnapshot(snapshots[k], current_snapshot_id, acc))

\* Lines 187-193: the loop over the snapshots.
PrintSnapshots(snapshots, current_snapshot_id, k, acc) ==
    IF k > Len(snapshots) \/ acc.fault # "none" THEN acc
    ELSE PrintSnapshots(snapshots, current_snapshot_id, k + 1,
             PrintSnapshot(snapshots[k], current_snapshot_id, acc))

\* Lines 172-193 on the decoded body.
Inspect(metadata, acc) ==
    IF SubscriptFault(metadata, "metadata") # "none"
    THEN Fail(acc, SubscriptFault(metadata, "metadata"))
    ELSE LET m == metadata.items["metadata"]
         IN  IF SubscriptFault(m, "current-schema-id") # "none"
             THEN Fail(acc, SubscriptFault(m, "current-schema-id"))
             ELSE LET a1 == Emit(acc, Line("Current schema ID", <<m.items["current-schema-id"]>>))
                  IN  IF SubscriptFault(m, "schemas") # "none"
                      THEN Fail(a1, SubscriptFault(m, "schemas"))
                      ELSE LET schemas == m.items["schemas"].elems
                               a2 == Emit(a1, Line("Available schemas", <<PyInt(Len(schemas))>>))
                               a3 == PrintSchemas(schemas, 1, a2)
                           IN  IF a3.fault # "none" THEN a3
                               ELSE IF SubscriptFault(m, "snapshots") # "none"
                               THEN Fail(a3, SubscriptFault(m, "snapshots"))
                               ELSE IF SubscriptFault(m, "current-snapshot-id") # "none"
                               THEN Fail(a3, SubscriptFault(m, "current-snapshot-id"))
                               ELSE LET snapshots == m.items["snapshots"].elems
                                        current == m.items["current-snapshot-id"]
                                        a4 == Emit(a3, Line("Current snapshot ID", <<current>>))
                                        a5 == Emit(a4, Line("Total snapshots",
                                                            <<PyInt(Len(snapshots))>>))
                                    IN  PrintSnapshots(snapshots, current, 1, a5)

get_table_metadata(resp) ==
    IF resp.kind = "failure" THEN Raises("ConnectionError", <<>>)
    ELSE LET status == <<Line("Status", <<PyInt(resp.status)>>)>>
         IN  IF resp.status = 200
             THEN IF ~JsonOk(resp.body) THEN Raises("JSONDecodeError", status)
                  ELSE LET acc == Inspect(Json(resp.body),
                                          [printed |-> status, fault |-> "none"])
                       IN  IF acc.fault # "none" THEN Raises(acc.fault, acc.printed)
                           ELSE Returns(Json(resp.body), acc.printed)
             ELSE Returns(PyNone, Append(status, Line("Error", <<resp.body>>)))

---------------------------------------------------------------------------
(* Requests.                                                               *)

Ops == {"get_token", "list_catalogs", "list_namespaces", "list_tables",
        "create_catalog", "create_namespace", "create_table", "get_table_metadata"}

Request(method, url, headers, payload) ==
    [method |-> method, url |-> url, headers |-> headers, payload |-> payload]

NoPayload == [enc |-> "none"]
FormPayload(fields) == [enc |-> "form", fields |-> fields]
JsonPayload(doc) == [enc |-> "json", doc |-> doc]

\* get_headers sending the token without the Bearer scheme.
get_headers_bare(tok) ==
    ("Authorization" :> Format(tok)) @@ ("Content-Type" :> "application/json")

get_headers(tok) ==
    ("Authorization" :> ("Bearer " \o Format(tok))) @@ ("Content-Type" :> "application/json")

CatalogApi == "http://" \o POLARIS_HOST \o "/api/catalog/v1/"
ManagementApi == "http://" \o POLARIS_HOST \o "/api/management/v1/"

\* The arguments the commented-out calls of main give the create operations.
storage_config ==
    Obj({<<"storageType", PyStr("S3")>>, <<"region", PyStr("us-east-1")>>,
         <<"roleArn", PyStr("arn:aws:iam::123456789012:role/S3AccessRole")>>})

\* The request each operation builds and hands to requests.get / requests.post.
RequestOf(op, tok) ==
    CASE op = "get_token" ->
           Request("POST", CatalogApi \o "oauth/tokens",
                   ("Content-Type" :> "application/x-www-form-urlencoded"),
                   FormPayload([scope |-> "PRINCIPAL_ROLE:ALL",
                                grant_type |-> "client_credentials",
                                client_id |-> CLIENT_ID,
                                client_secret |-> CLIENT_SECRET]))
      [] op = "list_catalogs" ->
           Request("GET", ManagementApi \o "catalogs", get_headers(tok), NoPayload)
      [] op = "list_namespaces" ->
           Request("GET", CatalogApi \o catalog_name \o "/namespaces",
                   get_headers(tok), NoPayload)
      [] op = "list_tables" ->
           Request("GET", CatalogApi \o catalog_name \o "/namespaces/"
                          \o namespace_name \o "/tables",
                   get_headers(tok), NoPayload)
      [] op = "create_catalog" ->
           Request("POST", ManagementApi \o "catalogs", get_headers(tok),
                   JsonPayload(Obj({<<"type", PyStr("INTERNAL")>>,
                                    <<"name", PyStr(catalog_name)>>,
                                    <<"properties",
                                      Obj({<<"default-base-location",
                                             PyStr("s3://my-data-bucket/warehouse")>>})>>,
                                    <<"storageConfigInfo", storage_config>>})))
      [] op = "create_namespace" ->
           Request("POST", CatalogApi \o catalog_name \o "/namespaces", get_headers(tok),
                   JsonPayload(Obj({<<"namespace", PyList(<<PyStr(namespace_name)>>)>>,
                                    <<"properties", EmptyDict>>})))
      [] op = "create_table" ->
           Request("POST", CatalogApi \o catalog_name \o "/namespaces/"
                           \o namespace_name \o "/tables",
                   get_headers(tok),
                   JsonPayload(Obj({<<"name", PyStr(table_name)>>,
                                    <<"schema", Obj({<<"type", PyStr("struct")>>,
                                                     <<"schema-id", PyInt(0)>>})>>,
                                    <<"properties", EmptyDict>>})))
      [] op = "get_table_metadata" ->
           Request("GET", CatalogApi \o catalog_name \o "/namespaces/"
                          \o namespace_name \o "/tables/" \o table_name,
                   get_headers(tok), NoPayload)

\* What the operation does with what came back.
Outcome(op, resp) ==
    CASE op = "get_token" -> get_token(resp)
      [] op = "list_catalogs" -> list_catalogs(resp)
      [] op = "list_namespaces" -> list_namespaces(resp)
      [] op = "list_tables" -> list_tables(resp)
      [] op = "create_catalog" -> create_catalog(resp)
      [] op = "create_namespace" -> create_namespace(resp)
      [] op = "create_table" -> create_table(resp)
      [] op = "get_table_metadata" -> get_table_metadata(resp)

\* The line each operation prints on entry.
Banner(op) == Line("Banner", <<PyStr(op)>>)

---------------------------------------------------------------------------
(* What the service may answer.                                            *)

Tokens == {PyStr("abc123"), PyStr("tok2")}

TokenBodies ==
    {JsonBody(Obj({<<"access_token", PyStr("abc123")>>})),
     JsonBody(Obj({<<"access_token", PyStr("tok2")>>, <<"token_type", PyStr("bearer")>>})),
     JsonBody(Obj({<<"error", PyStr("invalid_client")>>})),
     JsonBody(PyList(<<>>)),
     TextBody}

GenericBodies == {JsonBody(Obj({<<"items", PyList(<<>>)>>})), TextBody}

FieldOk == Obj({<<"name", PyStr("id")>>, <<"type", PyStr("long")>>})
FieldNoType == Obj({<<"name", PyStr("created_at")>>})

SchemaVariants ==
    {Obj({<<"schema-id", PyInt(0)>>, <<"fields", PyList(<<FieldOk>>)>>}),
     Obj({<<"schema-id", PyInt(1)>>, <<"fields", PyList(<<FieldOk, FieldOk>>)>>}),
     Obj({<<"fields", PyList(<<FieldOk>>)>>}),
     Obj({<<"schema-id", PyInt(1)>>}),
     Obj({<<"schema-id", PyInt(0)>>, <<"fields", PyList(<<FieldNoType>>)>>})}

SnapshotVariants ==
    {Obj({<<"snapshot-id", PyInt(100)>>, <<"timestamp-ms", PyInt(2)>>,
          <<"operation", PyStr("append")>>, <<"summary", EmptyDict>>}),
     Obj({<<"snapshot-id", PyInt(99)>>, <<"timestamp-ms", PyInt(1)>>}),
     Obj({<<"timestamp-ms", PyInt(1)>>}),
     Obj({<<"snapshot-id", PyInt(100)>>})}

\* The key present with each of the values, or absent.
Optional(key, values) == {{}} \cup {{<<key, v>>} : v \in values}

\* Bodies of the table endpoint: every combination of present and absent keys.
MetadataDocs ==
    {Obj({<<"metadata", Obj(a \cup b \cup c \cup d)>>}) :
        a \in Optional("current-schema-id", {PyInt(1)}),
        b \in Optional("schemas", {PyList(s) : s \in SeqUpTo(SchemaVariants, MaxSchemas)}),
        c \in Optional("snapshots", {PyList(s) : s \in SeqUpTo(SnapshotVariants, MaxSnapshots)}),
        d \in Optional("current-snapshot-id", {PyInt(100), PyInt(7), PyNone})}

\* The scenario of the table endpoint, and two defective bodies.
SampleMetadataDocs ==
    {Obj({<<"metadata", Obj({<<"current-schema-id", PyInt(1)>>,
                             <<"schemas", PyList(<<
                                 Obj({<<"schema-id", PyInt(0)>>, <<"fields", PyList(<<FieldOk>>)>>}),
                                 Obj({<<"schema-id", PyInt(1)>>, <<"fields", PyList(<<FieldOk, FieldOk>>)>>})>>)>>,
                             <<"current-snapshot-id", PyInt(100)>>,
                             <<"snapshots", PyList(<<
                                 Obj({<<"snapshot-id", PyInt(100)>>, <<"timestamp-ms", PyInt(2)>>,
                                      <<"operation", PyStr("append")>>, <<"summary", EmptyDict>>}),
                                 Obj({<<"snapshot-id", PyInt(99)>>, <<"timestamp-ms", PyInt(1)>>})>>)>>})>>}),
     Obj({<<"metadata", Obj({<<"current-schema-id", PyInt(1)>>,
                             <<"schemas", PyList(<<>>)>>})>>}),
     Obj({<<"metadata", PyList(<<>>)>>})}

\* A 204 response carries no body.
Responses(statuses, bodies) ==
    {Received(st, b) : st \in statuses \ {204}, b \in bodies}
        \cup {Received(st, TextBody) : st \in statuses \cap {204}}

\* What may come back to an invocation of op; main sees the sample table bodies,
\* a single invocation every table body.
ResponsesFor(op, caller) ==
    CASE op = "get_token" -> Responses(Statuses, TokenBodies)
      [] op = "get_table_metadata" ->
           Responses(Statuses, GenericBodies)
             \cup {Received(200, JsonBody(d)) :
                     d \in IF caller = "harness" THEN MetadataDocs ELSE SampleMetadataDocs}
      [] OTHER -> Responses(Statuses, GenericBodies)

---------------------------------------------------------------------------
(* The steps of an invocation.                                             *)

Idle == [op |-> "none", phase |-> "idle", token |-> Unbound]

NoOutcome ==
    [op |-> "none", response |-> NoResponse, outcome |-> "none",
     value |-> Unbound, fault |-> "none", printed |-> <<>>]

\* Entering the operation: its first print.
Call(op, tok) ==
    /\ frame = Idle
    /\ frame' = [op |-> op, phase |-> "called", token |-> tok]
    /\ calls' = Append(calls, op)
    /\ out' = Append(out, Banner(op))
    /\ UNCHANGED <<pc, inflight, response, sent, token, exc, last>>

\* requests.get / requests.post: the request goes out and the call blocks.
Send ==
    /\ frame.phase = "called"
    /\ inflight' = Append(inflight, RequestOf(frame.op, frame.token))
    /\ sent' = Append(sent, RequestOf(frame.op, frame.token))
    /\ frame' = [frame EXCEPT !.phase = "waiting"]
    /\ UNCHANGED <<pc, response, calls, token, exc, last, out>>

\* The service answers the outstanding request.
Respond ==
    /\ frame.phase = "waiting"
    /\ inflight # <<>>
    /\ \E r \in ResponsesFor(frame.op, pc) : response' = r
    /\ inflight' = Tail(inflight)
    /\ frame' = [frame EXCEPT !.phase = "responded"]
    /\ UNCHANGED <<pc, sent, calls, token, exc, last, out>>

\* Connection refused, DNS failure, timeout: requests raises instead of returning.
TransportFail ==
    /\ frame.phase = "waiting"
    /\ inflight # <<>>
    /\ response' = ConnectionFailed
    /\ inflight' = Tail(inflight)
    /\ frame' = [frame EXCEPT !.phase = "responded"]
    /\ UNCHANGED <<pc, sent, calls, token, exc, last, out>>

\* An invocation that sends its request again after a 500.
Complete_retry ==
    /\ frame.phase = "responded"
    /\ last' = [op |-> frame.op, response |-> response,
                outcome |-> Outcome(frame.op, response).outcome,
                value |-> Outcome(frame.op, response).value,
                fault |-> Outcome(frame.op, response).fault,
                printed |-> Outcome(frame.op, response).printed]
    /\ out' = out \o Outcome(frame.op, response).printed
    /\ frame' = IF response.kind = "response" /\ response.status = 500
                THEN [frame EXCEPT !.phase = "called"]
                ELSE Idle
    /\ response' = NoResponse
    /\ UNCHANGED <<inflight, sent, calls>>

\* The rest of the operation's body runs on what came back; the invocation ends.
Complete ==
    /\ frame.phase = "responded"
    /\ last' = [op |-> frame.op, response |-> response,
                outcome |-> Outcome(frame.op, response).outcome,
                value |-> Outcome(frame.op, response).value,
                fault |-> Outcome(frame.op, response).fault,
                printed |-> Outcome(frame.op, response).printed]
    /\ out' = out \o Outcome(frame.op, response).printed
    /\ frame' = Idle
    /\ response' = NoResponse
    /\ UNCHANGED <<inflight, sent, calls>>

---------------------------------------------------------------------------
(* main.                                                                   *)

\* main listing the tables before the namespaces.
MainSequence_reordered ==
    <<"get_token", "list_catalogs", "list_tables", "list_namespaces", "get_table_metadata">>

\* The calls of main's try block, in order (lines 209, 242-245).
MainSequence ==
    <<"get_token", "list_catalogs", "list_namespaces", "list_tables", "get_table_metadata">>

MainOps == {MainSequence[i] : i \in 1..Len(MainSequence)}

Position(op) == CHOOSE i \in 1..Len(MainSequence) : MainSequence[i] = op

\* The statement after the call of op: the next call, or the end of main.
After(op) ==
    IF Position(op) < Len(MainSequence) THEN MainSequence[Position(op) + 1] ELSE "done"

\* except KeyError
Catches_lookup_only(fault) == fault = "KeyError"

\* except Exception: every fault an operation raises derives from Exception.
Catches(fault) == fault \in Faults

\* main calls the operation it has reached, with its token.
MainCall ==
    /\ pc \in MainOps
    /\ Call(pc, IF pc = "get_token" THEN Unbound ELSE token)

\* The call returns into main, or raises into its except clause.
MainResume ==
    /\ pc \in MainOps
    /\ Complete
    /\ IF Outcome(frame.op, response).outcome = "raise"
       THEN /\ pc' = "except"
            /\ exc' = Outcome(frame.op, response).fault
            /\ token' = token
       ELSE /\ pc' = After(pc)
            /\ exc' = exc
            /\ token' = IF pc = "get_token" THEN Outcome(frame.op, response).value ELSE token

\* Lines 247-248: the handler prints the exception and main ends.
MainExcept ==
    /\ pc = "except"
    /\ IF Catches(exc)
       THEN /\ out' = Append(out, Line("Error", <<PyStr(exc)>>))
            /\ pc' = "done"
       ELSE /\ out' = out
            /\ pc' = "propagated"
    /\ exc' = "none"
    /\ UNCHANGED <<frame, inflight, response, sent, calls, token, last>>

Init ==
    /\ pc = "get_token"
    /\ frame = Idle
    /\ inflight = <<>>
    /\ response = NoResponse
    /\ sent = <<>>
    /\ calls = <<>>
    /\ token = Unbound
    /\ exc = "none"
    /\ last = NoOutcome
    /\ out = <<>>

Next ==
    \/ MainCall
    \/ Send
    \/ Respond
    \/ TransportFail
    \/ MainResume
    \/ MainExcept

Spec == Init /\ [][Next]_vars


---------------------------------------------------------------------------
(* One invocation of any operation by an importing caller.                 *)

HarnessCall ==
    /\ pc = "harness"
    /\ calls = <<>>
    /\ \E op \in Ops, tok \in Tokens :
          Call(op, IF op = "get_token" THEN Unbound ELSE tok)

HarnessResume ==
    /\ pc = "harness"
    /\ Complete
    /\ UNCHANGED <<pc, token, exc>>

InitOps ==
    /\ pc = "harness"
    /\ frame = Idle
    /\ inflight = <<>>
    /\ response = NoResponse
    /\ sent = <<>>
    /\ calls = <<>>
    /\ token = Unbound
    /\ exc = "none"
    /\ last = NoOutcome
    /\ out = <<>>

NextOps ==
    \/ HarnessCall
    \/ Send
    \/ Respond
    \/ TransportFail
    \/ HarnessResume

SpecOps == InitOps /\ [][NextOps]_vars

---------------------------------------------------------------------------
(* Vocabulary of the properties.                                           *)

ListOps == {"list_catalogs", "list_namespaces", "list_tables"}
ReadOps == ListOps \cup {"get_table_metadata"}
CreateOps == {"create_catalog", "create_namespace", "create_table"}

\* The most recently finished invocation got an HTTP response (of any status).
Answered == last.response.kind = "response"

HasKeys(d, keys) == d.py = "dict" /\ keys \subseteq DOMAIN d.items

\* The body holds an access_token field.
HasToken(body) == JsonOk(body) /\ HasKeys(Json(body), {"access_token"})

\* Every field the metadata traversal subscripts is present.
WellFormedMetadata(doc) ==
    /\ HasKeys(doc, {"metadata"})
    /\ HasKeys(doc.items["metadata"],
               {"current-schema-id", "schemas", "snapshots", "current-snapshot-id"})
    /\ \A i \in DOMAIN doc.items["metadata"].items["schemas"].elems :
         LET schema == doc.items["metadata"].items["schemas"].elems[i]
         IN  /\ HasKeys(schema, {"schema-id", "fields"})
             /\ \A j \in DOMAIN schema.items["fields"].elems :
                  HasKeys(schema.items["fields"].elems[j], {"name", "type"})
    /\ \A k \in DOMAIN doc.items["metadata"].items["snapshots"].elems :
         HasKeys(doc.items["metadata"].items["snapshots"].elems[k],
                 {"snapshot-id", "timestamp-ms"})

SchemasOf(doc) == doc.items["metadata"].items["schemas"].elems
SnapshotsOf(doc) == doc.items["metadata"].items["snapshots"].elems
CurrentSnapshotOf(doc) == doc.items["metadata"].items["current-snapshot-id"]

\* The snapshots whose id equals current-snapshot-id.
Matching(doc) ==
    {k \in DOMAIN SnapshotsOf(doc) :
        SnapshotsOf(doc)[k].items["snapshot-id"] = CurrentSnapshotOf(doc)}

CountKind(printed, kind) ==
    Cardinality({i \in DOMAIN printed : printed[i].kind = kind})

\* The position of the k-th line of the given kind.
NthOfKind(printed, kind, k) ==
    CHOOSE i \in DOMAIN printed :
        /\ printed[i].kind = kind
        /\ Cardinality({j \in 1..i : printed[j].kind = kind}) = k

\* The k-th snapshot summary is followed by the current-snapshot mark.
Flagged(printed, k) ==
    LET i == NthOfKind(printed, "Summary", k)
    IN  i < Len(printed) /\ printed[i + 1].kind = "CURRENT SNAPSHOT"

\* A finished get_table_metadata on a status-200 body that decodes as JSON.
MetadataAnswered ==
    /\ last.op = "get_table_metadata"
    /\ Answered
    /\ last.response.status = 200
    /\ JsonOk(last.response.body)

---------------------------------------------------------------------------
(* C1 *)

\* C1 as stated, read in its most favourable way (bodies that decode as JSON
\* only): a read operation answered with status 200 returns the parsed body,
\* answered with any other status returns None, and never raises.
C1_ReadsReturnBodyOn200 ==
    (last.op \in ReadOps /\ Answered /\ JsonOk(last.response.body)) =>
        /\ last.outcome = "return"
        /\ last.value = IF last.response.status = 200
                        THEN Json(last.response.body) ELSE PyNone

\* C1, amended: a read operation answered with a status other than 200 returns
\* None and does not raise; answered with 200 it returns exactly the parsed
\* body when the body decodes as JSON and, for get_table_metadata, holds every
\* field the traversal subscripts; a 200 body that does not decode raises a
\* decoding error and a 200 table body lacking a traversed field raises a
\* lookup error (KeyError, or TypeError on a non-object).
C1_ReadResult ==
    (last.op \in ReadOps /\ Answered) =>
        IF last.response.status # 200
        THEN last.outcome = "return" /\ last.value = PyNone
        ELSE IF ~JsonOk(last.response.body)
        THEN last.outcome = "raise" /\ last.fault = "JSONDecodeError"
        ELSE IF last.op \in ListOps \/ WellFormedMetadata(Json(last.response.body))
        THEN last.outcome = "return" /\ last.value = Json(last.response.body)
        ELSE last.outcome = "raise" /\ last.fault \in {"KeyError", "TypeError"}

C1_Witness ==
    /\ MetadataAnswered
    /\ last.outcome = "return"
    /\ last.value = Json(last.response.body)
    /\ last.value # PyNone

---------------------------------------------------------------------------
(* C2 *)

\* C2 as stated: a create operation answered with status 200 or 201 returns
\* the parsed JSON body, and answered with any other status returns None.
C2_CreatesReturnBodyIff200Or201 ==
    (last.op \in CreateOps /\ Answered) =>
        /\ last.outcome = "return"
        /\ IF last.response.status \in {200, 201}
           THEN JsonOk(last.response.body) /\ last.value = Json(last.response.body)
           ELSE last.value = PyNone

\* C2, amended: a create operation returns the parsed JSON body if and only if
\* the status is 200 or 201 and the body decodes as JSON; a 200 or 201 response
\* whose body does not decode raises a decoding error; every other status
\* (204 included) returns None.
C2_CreateResult ==
    (last.op \in CreateOps /\ Answered) =>
        /\ (last.response.status \in {200, 201} /\ JsonOk(last.response.body)) =>
              (last.outcome = "return" /\ last.value = Json(last.response.body))
        /\ (last.response.status \in {200, 201} /\ ~JsonOk(last.response.body)) =>
              (last.outcome = "raise" /\ last.fault = "JSONDecodeError")
        /\ last.response.status \notin {200, 201} =>
              (last.outcome = "return" /\ last.value = PyNone)

C2_Witness ==
    /\ last.op = "create_table"
    /\ Answered
    /\ last.response.status = 201
    /\ last.outcome = "return"
    /\ last.value = Json(last.response.body)

---------------------------------------------------------------------------
(* C3 *)

\* C3: a token request answered with a 2xx status and a body holding an
\* access_token field returns that field, unchanged.
C3_TokenVerbatim ==
    (/\ last.op = "get_token"
     /\ Answered
     /\ last.response.status \in 200..299
     /\ HasToken(last.response.body)) =>
        /\ last.outcome = "return"
        /\ last.value = Json(last.response.body).items["access_token"]

C3_Witness ==
    /\ last.op = "get_token"
    /\ Answered
    /\ last.response.status = 200
    /\ last.outcome = "return"
    /\ last.value = PyStr("abc123")

---------------------------------------------------------------------------
(* C4 *)

\* C4 as stated: a token request answered with a status outside 2xx returns
\* no value.
C4_NoTokenOutside2xx ==
    (last.op = "get_token" /\ Answered /\ last.response.status \notin 200..299) =>
        last.outcome = "raise"

\* C4, amended: a token request answered with an HTTP error status (4xx or
\* 5xx) fails with an HTTP error before the body is read; answered with any
\* other status (2xx, or a status below 400 outside 2xx such as an unfollowed
\* 302, which is not rejected) and a body without an access_token field it
\* fails with a lookup error (KeyError on an object without the field,
\* TypeError on a non-object) or a decoding error; in all these cases no value
\* is returned.
C4_TokenFailures ==
    (last.op = "get_token" /\ Answered) =>
        /\ (400 <= last.response.status /\ last.response.status <= 599) =>
              (last.outcome = "raise" /\ last.fault = "HTTPError" /\ last.value = Unbound)
        /\ (last.response.status < 400 /\ ~HasToken(last.response.body)) =>
              /\ last.outcome = "raise"
              /\ last.value = Unbound
              /\ last.fault = IF ~JsonOk(last.response.body) THEN "JSONDecodeError"
                              ELSE IF Json(last.response.body).py = "dict" THEN "KeyError"
                              ELSE "TypeError"

C4_Witness ==
    /\ last.op = "get_token"
    /\ Answered
    /\ last.response.status = 404
    /\ HasToken(last.response.body)
    /\ last.outcome = "raise"

---------------------------------------------------------------------------
(* C5 *)

\* C5 as stated, for the payloads the traversal gets through: N schema
\* summaries, M snapshot summaries, exactly one snapshot flagged when a
\* snapshot id equals current-snapshot-id and none flagged otherwise.
C5_ExactlyOneCurrent ==
    (MetadataAnswered /\ last.outcome = "return") =>
        /\ CountKind(last.printed, "Schema") = Len(SchemasOf(last.value))
        /\ CountKind(last.printed, "Summary") = Len(SnapshotsOf(last.value))
        /\ CountKind(last.printed, "CURRENT SNAPSHOT")
             = IF Matching(last.value) # {} THEN 1 ELSE 0

\* C5, amended: for every status-200 payload that holds every field the
\* traversal subscripts, with N schemas and M snapshots, get_table_metadata
\* reports exactly N schema summaries and M snapshot summaries and flags
\* exactly the snapshots whose id equals current-snapshot-id: one when the ids
\* are distinct and one matches, none when none matches, and several when the
\* payload repeats the current id.
C5_MetadataReport ==
    (MetadataAnswered /\ WellFormedMetadata(Json(last.response.body))) =>
        LET doc == Json(last.response.body)
        IN  /\ last.outcome = "return"
            /\ CountKind(last.printed, "Schema") = Len(SchemasOf(doc))
            /\ last.printed[NthOfKind(last.printed, "Available schemas", 1)].args
                 = <<PyInt(Len(SchemasOf(doc)))>>
            /\ \A i \in DOMAIN SchemasOf(doc) :
                 last.printed[NthOfKind(last.printed, "Schema", i)].args
                   = <<PyInt(i - 1), SchemasOf(doc)[i].items["schema-id"]>>
            /\ CountKind(last.printed, "Snapshot ID") = Len(SnapshotsOf(doc))
            /\ CountKind(last.printed, "Summary") = Len(SnapshotsOf(doc))
            /\ \A k \in DOMAIN SnapshotsOf(doc) :
                 /\ last.printed[NthOfKind(last.printed, "Snapshot ID", k)].args
                      = <<SnapshotsOf(doc)[k].items["snapshot-id"]>>
                 /\ Flagged(last.printed, k) <=> k \in Matching(doc)
            /\ CountKind(last.printed, "CURRENT SNAPSHOT") = Cardinality(Matching(doc))

C5_Witness ==
    /\ MetadataAnswered
    /\ last.outcome = "return"
    /\ Len(SchemasOf(last.value)) = 2
    /\ Len(SnapshotsOf(last.value)) = 2
    /\ Cardinality(Matching(last.value)) = 1
    /\ CountKind(last.printed, "CURRENT SNAPSHOT") = 1

---------------------------------------------------------------------------
(* Vocabulary of the properties about main.                                *)

\* The order the entry routine is to issue its requests in.
ExpectedOrder ==
    <<"get_token", "list_catalogs", "list_namespaces", "list_tables", "get_table_metadata">>

\* The request is the one the operation issues (method and URL).
IsRequestOf(req, op) ==
    /\ req.method = RequestOf(op, Unbound).method
    /\ req.url = RequestOf(op, Unbound).url

\* The values get_token has returned so far (it prints each before returning).
TokensReturned == {out[i].args[1] : i \in {j \in DOMAIN out : out[j].kind = "Token"}}

\* The statuses the run has printed so far.
StatusesSeen == {out[i].args[1].n : i \in {j \in DOMAIN out : out[j].kind = "Status"}}

\* The number of invocations that have passed requests.get / requests.post.
InvocationsSending == Len(calls) - (IF frame.phase = "called" THEN 1 ELSE 0)

---------------------------------------------------------------------------
(* C6 *)

\* C6: the requests a run of main has issued are, in order, a prefix of token
\* request, list catalogs, list namespaces, list tables, get table metadata;
\* a read request is issued only once get_token has returned a token; no
\* create operation is invoked and no create request is issued.
C6_FixedOrder ==
    /\ Len(sent) <= Len(ExpectedOrder)
    /\ \A i \in DOMAIN sent : IsRequestOf(sent[i], ExpectedOrder[i])
    /\ Len(calls) <= Len(ExpectedOrder)
    /\ \A i \in DOMAIN calls : calls[i] = ExpectedOrder[i]
    /\ Len(calls) >= 2 => (token # Unbound /\ TokensReturned = {token})
    /\ \A i \in DOMAIN calls : calls[i] \notin CreateOps
    /\ \A i \in DOMAIN sent : \A op \in CreateOps : ~IsRequestOf(sent[i], op)

C6_Witness ==
    /\ pc = "done"
    /\ Len(sent) = 5
    /\ IsRequestOf(sent[5], "get_table_metadata")
    /\ last.outcome = "return"

---------------------------------------------------------------------------
(* C7 *)

\* The operation the entry routine is to invoke after a list operation.
Following(op) ==
    CASE op = "list_catalogs" -> "list_namespaces"
      [] op = "list_namespaces" -> "list_tables"
      [] op = "list_tables" -> "get_table_metadata"

\* The most recently finished invocation is a list operation answered with a
\* status other than 200.
ListGotErrorStatus(op) == last.op = op /\ Answered /\ last.response.status # 200

\* C7: when list_catalogs, list_namespaces or list_tables is answered with a
\* status other than 200, the operation returns None, nothing is raised, and
\* main is at the next operation of the sequence: about to invoke it, about to
\* issue its request, or past issuing it; a run that ends without a fatal
\* fault has issued all five requests whatever statuses it received.
C7_ErrorStatusDoesNotStop ==
    /\ \A op \in ListOps : ListGotErrorStatus(op) =>
          /\ last.outcome = "return"
          /\ last.value = PyNone
          /\ exc = "none"
          /\ pc = Following(op)
          /\ \/ frame = Idle /\ ENABLED MainCall
             \/ frame.op = Following(op) /\ frame.phase = "called" /\ ENABLED Send
             \/ /\ frame.op = Following(op)
                /\ frame.phase \in {"waiting", "responded"}
                /\ IsRequestOf(sent[Len(sent)], Following(op))
    /\ (pc = "done" /\ last.outcome = "return") =>
          /\ last.op = "get_table_metadata"
          /\ \A i \in DOMAIN ExpectedOrder :
               i <= Len(sent) /\ IsRequestOf(sent[i], ExpectedOrder[i])

C7_Witness ==
    /\ pc = "done"
    /\ last.op = "get_table_metadata"
    /\ last.outcome = "return"
    /\ last.value # PyNone
    /\ StatusesSeen = {404, 500, 302, 200}
    /\ Len(sent) = 5

---------------------------------------------------------------------------
(* C8 *)

\* A fatal fault in the most recently finished invocation: a transport
\* failure, an HTTP error status on the token request, or a field missing from
\* a status-200 token or table-metadata body.
FatalFault ==
    \/ last.response.kind = "failure"
    \/ /\ last.op = "get_token"
       /\ Answered
       /\ \/ (400 <= last.response.status /\ last.response.status <= 599)
          \/ (/\ last.response.status = 200
              /\ JsonOk(last.response.body)
              /\ ~HasKeys(Json(last.response.body), {"access_token"}))
    \/ /\ MetadataAnswered
       /\ ~WellFormedMetadata(Json(last.response.body))

\* C8: a fatal fault aborts the run of main: the operation raises, no later
\* operation is invoked and no later request is issued, main's handler catches
\* the fault (its step is the one main can take) and prints it, and main ends
\* without an exception leaving it.
C8_FatalFaultAborts ==
    /\ pc # "propagated"
    /\ FatalFault =>
          /\ last.outcome = "raise"
          /\ pc \in {"except", "done"}
          /\ frame = Idle
          /\ inflight = <<>>
          /\ calls[Len(calls)] = last.op
          /\ Len(sent) = Len(calls)
          /\ pc = "except" => (exc = last.fault /\ ENABLED MainExcept /\ ~ENABLED MainCall)
          /\ pc = "done" => (exc = "none" /\ out[Len(out)] = Line("Error", <<PyStr(last.fault)>>))

C8_Witness ==
    /\ pc = "done"
    /\ FatalFault
    /\ last.op = "list_namespaces"
    /\ last.fault = "ConnectionError"
    /\ Len(sent) = 3
    /\ out[Len(out)] = Line("Error", <<PyStr("ConnectionError")>>)

---------------------------------------------------------------------------
(* C9 *)

\* C9: at most one HTTP request is outstanding, and only while the invocation
\* that sent it is blocked on it; every invocation has sent exactly one request
\* once it has passed its requests call, whatever status came back; a run of
\* main sends at most five requests.
C9_OneRequestAtATime ==
    /\ Len(inflight) <= 1
    /\ inflight # <<>> => (frame.phase = "waiting" /\ inflight = <<sent[Len(sent)]>>)
    /\ Len(sent) = InvocationsSending
    /\ \A i \in DOMAIN sent : IsRequestOf(sent[i], calls[i])
    /\ Len(sent) <= 5

C9_Witness ==
    /\ Len(sent) = 5
    /\ inflight # <<>>
    /\ 500 \in StatusesSeen

---------------------------------------------------------------------------
(* C10 *)

\* C10: a run of main invokes get_token once; once it has returned, main's
\* token is the value it returned and stays that value; every request after
\* the token request carries the header Authorization: Bearer <that value>.
C10_TokenReadOnly ==
    /\ Cardinality({i \in DOMAIN calls : calls[i] = "get_token"}) <= 1
    /\ Cardinality({i \in DOMAIN sent : IsRequestOf(sent[i], "get_token")}) <= 1
    /\ Cardinality(TokensReturned) <= 1
    /\ token # Unbound => TokensReturned = {token}
    /\ TokensReturned # {} => token \in TokensReturned
    /\ \A i \in DOMAIN sent : i >= 2 =>
          /\ "Authorization" \in DOMAIN sent[i].headers
          /\ \A t \in TokensReturned : sent[i].headers["Authorization"] = "Bearer " \o t.s
          /\ TokensReturned # {}

C10_Witness ==
    /\ pc = "done"
    /\ Len(sent) = 5
    /\ token = PyStr("tok2")
    /\ sent[5].headers["Authorization"] = "Bearer tok2"
    /\ 404 \in StatusesSeen

============================================================================
